---- MODULE Spec2Model ----
(***************************************************************************)
(* A model of the digest utility (src/digest/__init__.py): parse_params,   *)
(* the buffered read loop of digest(), and the batch driver main().        *)
(*                                                                         *)
(* One behaviour is one run: either one command-line invocation (mode      *)
(* "cli": parse_params, then main's stdin branch or its loop over paths),  *)
(* or one direct call of the library function digest() (mode "lib").       *)
(*                                                                         *)
(* The hash library is a collaborator: an accumulator is modelled by the   *)
(* bytes it has been fed, in order, and a digest string by the ideal       *)
(* (collision-free) value [alg, data, len] of the algorithm, the bytes     *)
(* fed and the requested length.  The file system and the sources are the  *)
(* environment: os.path.isfile, open and readinto choose their outcomes    *)
(* nondeterministically.  The -h and -v options, which end the process     *)
(* inside argparse with exit code 0, are not among the modelled inputs.    *)
(***************************************************************************)
EXTENDS Integers, Sequences, FiniteSets

(* ------------------------------ bounds -------------------------------- *)

\* longest source content, in bytes
MaxLen == 3
\* longest list of paths on the command line
MaxPaths == 3
\* largest explicit buffer size
MaxBuf == 2

(* --------------------------- program constants ------------------------ *)

BUFSIZE == 16384

DIGEST_LENGTH_REQUIRED == {"shake_128", "shake_256"}

\* hashlib.algorithms_available, as far as the model draws from it
ALGORITHMS == {"md5", "sha256", "shake_128", "shake_256"}

\* the exit status argparse's error() ends the process with
ArgparseErrorExit == 2

\* the exit status of an interpreter that ends on an uncaught exception
UncaughtExit == 1

(* ------------------------------ values -------------------------------- *)

None == <<>>
Some(x) == <<x>>
Get(o) == o[1]

Bytes == {0, 1}

RECURSIVE SeqsUpTo(_, _)
SeqsUpTo(S, k) ==
  IF k = 0 THEN {<<>>}
  ELSE LET shorter == SeqsUpTo(S, k - 1)
       IN  shorter \cup {Append(s, x) : s \in {t \in shorter : Len(t) = k - 1}, x \in S}

Contents == SeqsUpTo(Bytes, MaxLen)

PathNames == {"a", "b"}

\* the content a regular file on the disk may have: one byte, or MaxLen
\* bytes 1 0 1 ...
SampleFiles == {<<1>>, [i \in 1 .. MaxLen |-> i % 2]}

Min(a, b) == IF a < b THEN a ELSE b

\* str.upper() on the algorithm names
Upper(alg) ==
  CASE alg = "md5" -> "MD5"
    [] alg = "sha256" -> "SHA256"
    [] alg = "shake_128" -> "SHAKE_128"
    [] alg = "shake_256" -> "SHAKE_256"
    [] OTHER -> "?"

\* a command-line token given to -b or -l: a decimal integer, or not one
Token(isInt, v) == [int |-> isInt, v |-> v]
NumberTokens == {Token(FALSE, 0)} \cup {Token(TRUE, v) : v \in -1 .. MaxBuf}
LengthTokens == {Token(FALSE, 0), Token(TRUE, 0), Token(TRUE, 1)}

VARIABLES
  args,     \* the inputs of the run: mode, algorithm, bufsize, length, paths
  pc,       \* the position in the program
  params,   \* the Params record parse_params returned, or None
  idx,      \* main: the position in params.paths of the current path
  call,     \* digest(): its arguments algorithm, bufsize, digest_length
  f,        \* digest(): the source, its content and the read position
  h,        \* digest(): the hash accumulator, the bytes it was fed
  buf,      \* digest(): the reusable buffer
  n,        \* digest(): what the last readinto returned
  ret,      \* the digest string the last digest() call returned
  exc,      \* the exception in flight
  stdout,   \* the lines printed to standard output
  stderr,   \* the lines printed to the diagnostic stream
  exit,     \* the exit status of the process, once it has ended
  outcome,  \* how the run ended: returned, raised, sysexit
  open,     \* the file handles open now (positions in params.paths)
  io,       \* history: whether any I/O was attempted (isfile, open, readinto)
  truth,    \* history: per tested path, what the file system held
  fail      \* history: the failure that happened while processing an input

vars == <<args, pc, params, idx, call, f, h, buf, n, ret, exc, stdout, stderr,
          exit, outcome, open, io, truth, fail>>

(* ------------------------------ records ------------------------------- *)

NoBuf == [size |-> 0, written |-> <<>>]

\* a source: a name, its whole content, and how much of it was read
Handle(name, data) == [name |-> name, data |-> data, pos |-> 0]

\* a line of standard output
DigestOnly(d) == [kind |-> "digest", label |-> "", path |-> "", digest |-> Some(d)]
DigestLine(label, path, d) ==
  [kind |-> "line", label |-> label, path |-> path, digest |-> Some(d)]
SkipLine(path) == [kind |-> "skip", label |-> "", path |-> path, digest |-> None]

\* a line of the diagnostic stream
ErrLine(kind, ex, alg, msg) == [kind |-> kind, exc |-> ex, alg |-> alg, msg |-> msg]

\* the ideal digest string of `data` under `alg`; len is None for the
\* algorithm's intrinsic length
Ideal(alg, data, len) == [alg |-> alg, data |-> data, len |-> len]

(* ------------------------------- Init --------------------------------- *)

Option(S) == {None} \cup {Some(x) : x \in S}

\* the algorithm names the runs are given: a fixed-length one, a
\* variable-length one, and one hashlib does not have
ArgAlgorithms == {"md5", "shake_128", "bogus"}

CliArgs ==
  [mode : {"cli"},
   algorithm : Option(ArgAlgorithms),
   bufsize : Option(NumberTokens),
   length : Option(LengthTokens),
   paths : SeqsUpTo(PathNames, MaxPaths)]

\* a direct call digest(f, algorithm, bufsize, digest_length) by a library user
LibArgs ==
  [mode : {"lib"},
   algorithm : {Some(a) : a \in ArgAlgorithms},
   bufsize : {Some(Token(TRUE, v)) : v \in -1 .. MaxBuf},
   length : Option({Token(TRUE, 1)}),
   paths : {<<>>}]

CallOf(alg, bufsize, len) ==
  [algorithm |-> alg, bufsize |-> bufsize, digest_length |-> len]

NoCall == CallOf("", 0, None)

Quiet ==
  /\ params = None /\ idx = 0
  /\ h = None /\ buf = NoBuf /\ n = 0 /\ ret = None /\ exc = None
  /\ stdout = <<>> /\ stderr = <<>> /\ exit = None /\ outcome = "running"
  /\ open = {} /\ io = FALSE /\ fail = "none"

InitCli ==
  /\ args \in CliArgs
  /\ pc = "start"
  /\ call = NoCall /\ f = None /\ truth = <<>>
  /\ Quiet

InitLib ==
  /\ args \in LibArgs
  /\ pc = "d_new"
  /\ call = CallOf(Get(args.algorithm), Get(args.bufsize).v,
                   IF args.length = None THEN None ELSE Some(Get(args.length).v))
  /\ \E data \in Contents :
       /\ f = Some(Handle("<source>", data))
       /\ truth = <<[kind |-> "file", data |-> data]>>
  /\ Quiet

Init == InitCli \/ InitLib

(* ---------------------------- parse_params ---------------------------- *)

\* positive_number raises ValueError: int(s) fails, or n <= 0
PositiveNumberFails(tok) == ~tok.int \/ tok.v <= 0

\* parser.parse_args() ends the process with a usage message
UsageReason(a) ==
  IF a.bufsize # None /\ PositiveNumberFails(Get(a.bufsize)) THEN "bufsize"
  ELSE IF a.length # None /\ PositiveNumberFails(Get(a.length)) THEN "digest-length"
  ELSE IF a.algorithm = None THEN "algorithm required"
  ELSE IF Get(a.algorithm) \notin ALGORITHMS THEN "invalid choice"
  ELSE ""

ArgBufsize(a) == IF a.bufsize = None THEN BUFSIZE ELSE Get(a.bufsize).v

ArgLength(a) == IF a.length = None THEN None ELSE Some(Get(a.length).v)

LengthMissingNever(alg, len) == FALSE

\* the first test after parse_args: a variable-length algorithm, no length
LengthMissing(alg, len) == alg \in DIGEST_LENGTH_REQUIRED /\ len = None

\* the second test: a length given for a fixed-length algorithm
LengthIgnored(alg, len) == alg \notin DIGEST_LENGTH_REQUIRED /\ len # None

NormalisedLengthKept(alg, len) == len

\* args.digest_length as the Params record gets it
NormalisedLength(alg, len) == IF LengthIgnored(alg, len) THEN None ELSE len

ParseParams ==
  /\ pc = "start"
  /\ IF UsageReason(args) # ""
     THEN /\ stderr' = Append(stderr, ErrLine("usage", "SystemExit", "", UsageReason(args)))
          /\ exit' = Some(ArgparseErrorExit)
          /\ outcome' = "sysexit"
          /\ pc' = "done"
          /\ UNCHANGED params
     ELSE LET alg == Get(args.algorithm)
              len == ArgLength(args)
          IN  IF LengthMissing(alg, len)
              THEN \* DigestError, raised outside main's try
                   /\ stderr' = Append(stderr,
                        ErrLine("Traceback", "DigestError", alg, "requires a digest length"))
                   /\ exit' = Some(UncaughtExit)
                   /\ outcome' = "raised"
                   /\ pc' = "done"
                   /\ UNCHANGED params
              ELSE /\ stderr' = IF LengthIgnored(alg, len)
                                THEN Append(stderr,
                                       ErrLine("WARNING", "", alg, "digest length is ignored"))
                                ELSE stderr
                   /\ params' = Some([buffer_size |-> ArgBufsize(args),
                                      digest_length |-> NormalisedLength(alg, len),
                                      algorithm |-> alg,
                                      paths |-> args.paths])
                   /\ pc' = "main"
                   /\ UNCHANGED <<exit, outcome>>
  /\ UNCHANGED <<args, idx, call, f, h, buf, n, ret, exc, stdout, open, io, truth, fail>>

(* ------------------------------- digest ------------------------------- *)

Exc(type, alg, msg) == [type |-> type, alg |-> alg, msg |-> msg]

\* hashlib: the algorithms whose hexdigest() takes a length (the SHAKE ones)
XofAlgorithms == {"shake_128", "shake_256"}

\* who called digest(): a library user, main's stdin branch, main's loop
Caller ==
  IF args.mode = "lib" THEN "lib"
  ELSE IF Len(Get(params).paths) = 0 THEN "stdin" ELSE "file"

\* the bytes of the buffer: what was written into it, then the zeros
\* bytearray(bufsize) started with
Zeros(k) == [i \in 1 .. k |-> 0]

BufBytes(b) == b.written \o Zeros(b.size - Len(b.written))

\* buf after readinto stored `chunk` at its start: later bytes stay
Stored(b, chunk) ==
  [b EXCEPT !.written =
     chunk \o SubSeq(b.written, Len(chunk) + 1, Len(b.written))]

FedWholeBuffer(b, k) == BufBytes(b)

\* buf[:n]
Fed(b, k) == SubSeq(BufBytes(b), 1, k)

LoopEndsOnShortRead(k, size) == k < size

\* if n <= 0: break
LoopEnds(k, size) == k <= 0

\* what one readinto may return: up to the buffer's size, at least one byte
\* while the source has any (and the buffer has room), zero at its end
ReadSizes(size, remaining) ==
  IF Min(size, remaining) = 0 THEN {0} ELSE 1 .. Min(size, remaining)

\* h = hashlib.new(algorithm); buf = bytearray(bufsize)
DigestNew ==
  /\ pc = "d_new"
  /\ IF call.algorithm \notin ALGORITHMS
     THEN /\ exc' = Some(Exc("ValueError", "", "unsupported hash type"))
          /\ pc' = "d_except"
          /\ UNCHANGED <<h, buf>>
     ELSE IF call.bufsize < 0
     THEN /\ exc' = Some(Exc("ValueError", "", "negative count"))
          /\ pc' = "d_except"
          /\ UNCHANGED <<h, buf>>
     ELSE /\ h' = Some([alg |-> call.algorithm, data |-> <<>>])
          /\ buf' = [size |-> call.bufsize, written |-> <<>>]
          /\ pc' = "d_read"
          /\ UNCHANGED exc
  /\ UNCHANGED <<args, params, idx, call, f, n, ret, stdout, stderr, exit,
                 outcome, open, io, truth, fail>>

\* n = f.readinto(buf)
ReadInto ==
  /\ pc = "d_read"
  /\ io' = TRUE
  /\ LET src == Get(f)
         remaining == Len(src.data) - src.pos
     IN  \/ \E k \in ReadSizes(buf.size, remaining) :
              /\ n' = k
              /\ buf' = Stored(buf, SubSeq(src.data, src.pos + 1, src.pos + k))
              /\ f' = Some([src EXCEPT !.pos = src.pos + k])
              /\ pc' = "d_check"
              /\ UNCHANGED exc
         \/ /\ exc' = Some(Exc("OSError", "", "I/O error"))
            /\ pc' = "d_except"
            /\ UNCHANGED <<n, buf, f>>
  /\ UNCHANGED <<args, params, idx, call, h, ret, stdout, stderr, exit,
                 outcome, open, truth, fail>>

\* if n <= 0: break; h.update(buf[:n])
LoopStep ==
  /\ pc = "d_check"
  /\ IF LoopEnds(n, buf.size)
     THEN /\ pc' = "d_final"
          /\ UNCHANGED h
     ELSE /\ h' = Some([Get(h) EXCEPT !.data = @ \o Fed(buf, n)])
          /\ pc' = "d_read"
  /\ UNCHANGED <<args, params, idx, call, f, buf, n, ret, exc, stdout, stderr,
                 exit, outcome, open, io, truth, fail>>

\* return h.hexdigest(digest_length) / return h.hexdigest()
Finalize ==
  /\ pc = "d_final"
  /\ LET acc == Get(h)
         len == call.digest_length
     IN  IF (len # None) = (acc.alg \in XofAlgorithms)
         THEN /\ ret' = Some(Ideal(acc.alg, acc.data, len))
              /\ pc' = "d_return"
              /\ UNCHANGED exc
         ELSE /\ exc' = Some(Exc("TypeError", "", "hexdigest arguments"))
              /\ pc' = "d_except"
              /\ UNCHANGED ret
  /\ UNCHANGED <<args, params, idx, call, f, h, buf, n, stdout, stderr, exit,
                 outcome, open, io, truth, fail>>

\* except Exception as ex: raise DigestError(f"{algorithm}: {ex}")
DigestExcept ==
  /\ pc = "d_except"
  /\ exc' = Some(Exc("DigestError", call.algorithm, Get(exc).msg))
  /\ fail' = "digest"
  /\ h' = None /\ buf' = NoBuf /\ n' = 0
  /\ IF Caller = "lib"
     THEN /\ outcome' = "raised"
          /\ pc' = "done"
     ELSE /\ pc' = IF Caller = "file" THEN "with_exit" ELSE "m_except"
          /\ UNCHANGED outcome
  /\ UNCHANGED <<args, params, idx, call, f, ret, stdout, stderr, exit, open,
                 io, truth>>

\* the library user gets the digest string
LibReturn ==
  /\ pc = "d_return"
  /\ Caller = "lib"
  /\ outcome' = "returned"
  /\ h' = None /\ buf' = NoBuf /\ n' = 0
  /\ pc' = "done"
  /\ UNCHANGED <<args, params, idx, call, f, ret, exc, stdout, stderr, exit,
                 open, io, truth, fail>>

(* -------------------------------- main -------------------------------- *)

P == Get(params)

ParamsCall == CallOf(P.algorithm, P.buffer_size, P.digest_length)

\* what the file system held for a tested path
NonFile == [kind |-> "nonfile", data |-> <<>>]
Unopenable == [kind |-> "unopenable", data |-> <<>>]
FileOf(data) == [kind |-> "file", data |-> data]

\* if len(params.paths) == 0: digest(f=sys.stdin.buffer, ...)
MainStdin ==
  /\ pc = "main"
  /\ Len(P.paths) = 0
  /\ \E data \in Contents :
       /\ f' = Some(Handle("<stdin>", data))
       /\ truth' = Append(truth, FileOf(data))
  /\ call' = ParamsCall
  /\ pc' = "d_new"
  /\ UNCHANGED <<args, params, idx, h, buf, n, ret, exc, stdout, stderr, exit,
                 outcome, open, io, fail>>

\* else: u_algorithm = ...; for path in params.paths
MainFiles ==
  /\ pc = "main"
  /\ Len(P.paths) > 0
  /\ idx' = 1
  /\ pc' = "loop"
  /\ UNCHANGED <<args, params, call, f, h, buf, n, ret, exc, stdout, stderr,
                 exit, outcome, open, io, truth, fail>>

SuccessReturn == 0

\* the for loop is exhausted: return 0
LoopEnd ==
  /\ pc = "loop"
  /\ idx > Len(P.paths)
  /\ exit' = Some(SuccessReturn)
  /\ outcome' = "returned"
  /\ pc' = "done"
  /\ UNCHANGED <<args, params, idx, call, f, h, buf, n, ret, exc, stdout,
                 stderr, open, io, truth, fail>>

SkipStops(i) == MaxPaths + 1

\* continue: the position of the path the loop takes up after a skip
SkipContinues(i) == i + 1

\* if not os.path.isfile(path): print the notice; continue
IsFileTest ==
  /\ pc = "loop"
  /\ idx <= Len(P.paths)
  /\ io' = TRUE
  /\ \/ /\ stdout' = Append(stdout, SkipLine(P.paths[idx]))
        /\ truth' = Append(truth, NonFile)
        /\ idx' = SkipContinues(idx)
        /\ UNCHANGED pc
     \/ /\ pc' = "open"
        /\ UNCHANGED <<stdout, truth, idx>>
  /\ UNCHANGED <<args, params, call, f, h, buf, n, ret, exc, stderr, exit,
                 outcome, open, fail>>

\* with open(path, mode="rb") as f: d = digest(f=f, ...)
Open ==
  /\ pc = "open"
  /\ io' = TRUE
  /\ \/ \E data \in SampleFiles :
          /\ f' = Some(Handle(P.paths[idx], data))
          /\ truth' = Append(truth, FileOf(data))
          /\ open' = open \cup {idx}
          /\ call' = ParamsCall
          /\ pc' = "d_new"
          /\ UNCHANGED <<exc, fail>>
     \/ \* permission denied, or the file is gone since the test
        /\ exc' = Some(Exc("OSError", "", "cannot open"))
        /\ truth' = Append(truth, Unopenable)
        /\ fail' = "open"
        /\ pc' = "m_except"
        /\ UNCHANGED <<f, open, call>>
  /\ UNCHANGED <<args, params, idx, h, buf, n, ret, stdout, stderr, exit,
                 outcome>>

\* print(digest(...)) on the stdin branch, then return 0
StdinPrint ==
  /\ pc = "d_return"
  /\ Caller = "stdin"
  /\ stdout' = Append(stdout, DigestOnly(Get(ret)))
  /\ exit' = Some(SuccessReturn)
  /\ outcome' = "returned"
  /\ h' = None /\ buf' = NoBuf /\ n' = 0
  /\ pc' = "done"
  /\ UNCHANGED <<args, params, idx, call, f, ret, exc, stderr, open, io,
                 truth, fail>>

LeakedOnRaise(handles, i, raising) == IF raising THEN handles ELSE handles \ {i}

\* the with statement's exit closes f, on return and on an exception alike
Closed(handles, i, raising) == handles \ {i}

\* print(f"{u_algorithm} ({path}): {d}"), leave the with block, next path
FilePrint ==
  /\ pc = "d_return"
  /\ Caller = "file"
  /\ stdout' = Append(stdout, DigestLine(Upper(P.algorithm), P.paths[idx], Get(ret)))
  /\ open' = Closed(open, idx, FALSE)
  /\ f' = None
  /\ h' = None /\ buf' = NoBuf /\ n' = 0
  /\ idx' = idx + 1
  /\ pc' = "loop"
  /\ UNCHANGED <<args, params, call, ret, exc, stderr, exit, outcome, io,
                 truth, fail>>

\* the DigestError leaves the with block
WithExitRaise ==
  /\ pc = "with_exit"
  /\ open' = Closed(open, idx, TRUE)
  /\ f' = None
  /\ pc' = "m_except"
  /\ UNCHANGED <<args, params, idx, call, h, buf, n, ret, exc, stdout, stderr,
                 exit, outcome, io, truth, fail>>

CatchesNothing(type) == FALSE

\* except DigestError as ex
MainCatches(type) == type = "DigestError"

\* the except clause without its return: main goes on to return 0
ExceptFallsThrough == SuccessReturn

\* return 1 in the except clause
ExceptReturn == 1

\* the except clause of main: print the error and return 1; any other
\* exception leaves main
MainExcept ==
  /\ pc = "m_except"
  /\ LET e == Get(exc)
     IN  IF MainCatches(e.type)
         THEN /\ stderr' = Append(stderr, ErrLine("Error", e.type, e.alg, e.msg))
              /\ exit' = Some(ExceptReturn)
              /\ outcome' = "returned"
         ELSE /\ stderr' = Append(stderr, ErrLine("Traceback", e.type, e.alg, e.msg))
              /\ exit' = Some(UncaughtExit)
              /\ outcome' = "raised"
  /\ pc' = "done"
  /\ UNCHANGED <<args, params, idx, call, f, h, buf, n, ret, exc, stdout,
                 open, io, truth, fail>>

(* ---------------------------- specification --------------------------- *)

Next ==
  \/ ParseParams
  \/ MainStdin
  \/ MainFiles
  \/ LoopEnd
  \/ IsFileTest
  \/ Open
  \/ DigestNew
  \/ ReadInto
  \/ LoopStep
  \/ Finalize
  \/ DigestExcept
  \/ LibReturn
  \/ StdinPrint
  \/ FilePrint
  \/ WithExitRaise
  \/ MainExcept

Spec == Init /\ [][Next]_vars

\* digest() alone, called by a library user
NextDigest ==
  \/ DigestNew
  \/ ReadInto
  \/ LoopStep
  \/ Finalize
  \/ DigestExcept
  \/ LibReturn

\* the call is sequential code: it keeps running until it returns or raises
DigestSpec == InitLib /\ [][NextDigest]_vars /\ WF_vars(NextDigest)

Done == pc = "done"

(* ------------------------------- claims ------------------------------- *)

Cli == args.mode = "cli"

\* the upper-cased algorithm names
Label ==
  [a \in ALGORITHMS |->
     CASE a = "md5" -> "MD5"
       [] a = "sha256" -> "SHA256"
       [] a = "shake_128" -> "SHAKE_128"
       [] a = "shake_256" -> "SHAKE_256"]

\* the line the batch driver owes path i, given what the disk held
ExpectedLine(i) ==
  IF truth[i].kind = "nonfile"
  THEN [kind |-> "skip", label |-> "", path |-> P.paths[i], digest |-> None]
  ELSE [kind |-> "line", label |-> Label[P.algorithm], path |-> P.paths[i],
        digest |-> Some([alg |-> P.algorithm, data |-> truth[i].data,
                         len |-> P.digest_length])]

LastErr == stderr[Len(stderr)]

\* C1: for every positive buffer size and every chunking of the reads,
\* digest() has fed the accumulator the whole source content when it
\* returns, and returns the digest of that content: the result depends on
\* the algorithm, the content and the digest length only.
C1_DigestOfWholeContent ==
  (pc = "d_return" /\ call.bufsize > 0) =>
      /\ Get(h).data = Get(f).data
      /\ Get(ret) = [alg |-> call.algorithm, data |-> Get(f).data,
                     len |-> call.digest_length]

\* C1's case: a digest returned after several reads (content longer than
\* the buffer)
C1_Witness ==
  /\ pc = "d_return"
  /\ call.bufsize > 0
  /\ Len(Get(f).data) > call.bufsize
  /\ Get(ret).data = Get(f).data

\* C2 as stated: every invocation ends with exit code 0 or 1, 1 on any
\* usage error and on any digest error.
C2_ExitZeroOrOne ==
  (Cli /\ pc = "done") =>
      /\ exit \in {<<0>>, <<1>>}
      /\ (UsageReason(args) # "" => exit = <<1>>)
      /\ (fail = "digest" => exit = <<1>>)

\* C2 as amended: every invocation ends with exit code 0, 1 or 2: 2 on a
\* usage error the argument parser detects, 1 on a variable-length
\* algorithm without a digest length and on any failure while processing an
\* input, 0 when it succeeds; no exit code is produced before the end.
C2_ExitCodes ==
  Cli =>
      /\ (pc # "done" => exit = None)
      /\ (pc = "done" =>
            /\ (UsageReason(args) # "" => exit = <<2>>)
            /\ (UsageReason(args) = "" /\ params = None => exit = <<1>>)
            /\ (params # None => exit = IF fail = "none" THEN <<0>> ELSE <<1>>))

\* C2's case: an invocation that ended on a usage error of the parser
C2_Witness ==
  /\ Cli /\ pc = "done"
  /\ UsageReason(args) = "invalid choice"
  /\ exit = <<2>>

VariableLengthNoLength ==
  /\ Cli
  /\ args.algorithm # None
  /\ Get(args.algorithm) \in {"shake_128", "shake_256"}
  /\ args.length = None

FileMode == Cli /\ params # None /\ Len(P.paths) > 0

\* C4: in file mode, when no path's digest computation fails (the file
\* opens and every read succeeds), standard output holds exactly one line
\* per path, in the order of params.paths: the skip notice for a path that
\* is no regular file, the line ALGORITHM (path): digest with the digest
\* of the file's content otherwise; and the exit code is 0.
C4_OneLinePerPath ==
  (FileMode /\ pc = "done" /\ fail = "none") =>
      /\ exit = <<0>>
      /\ Len(stdout) = Len(P.paths)
      /\ \A i \in 1 .. Len(P.paths) : stdout[i] = ExpectedLine(i)

\* C4's case: three paths, the second not a file, the others digested
C4_Witness ==
  /\ FileMode /\ pc = "done" /\ fail = "none"
  /\ Len(P.paths) = 3
  /\ Len(truth) = 3
  /\ truth[1].kind = "file" /\ truth[2].kind = "nonfile" /\ truth[3].kind = "file"
  /\ truth[1].data # truth[3].data
  /\ Len(stdout) = 3

C5_AtEnd ==
  (FileMode /\ pc = "done" /\ fail = "digest") =>
      /\ exit = <<1>>
      /\ Len(stderr) > 0 /\ LastErr.kind = "Error"
      /\ idx <= Len(P.paths)
      /\ Len(truth) = idx
      /\ Len(stdout) = idx - 1
      /\ \A i \in 1 .. idx - 1 : stdout[i] = ExpectedLine(i)

C5_AfterFailure ==
  (FileMode /\ fail = "digest") =>
      /\ pc' \in {"with_exit", "m_except", "done"}
      /\ idx' = idx /\ truth' = truth /\ stdout' = stdout /\ io' = io
      /\ f' \in {f, None}

\* C5: in file mode, when the digest engine fails for the path at position
\* k, the error is reported on the diagnostic stream and the invocation ends
\* with exit code 1: standard output holds the lines of the paths before k
\* and no line for k, and after the failure no path is tested, opened or
\* read.
C5_FailFast == []C5_AtEnd /\ [][C5_AfterFailure]_vars

\* C5's case: the engine failed for the second of three paths
C5_Witness ==
  /\ FileMode /\ pc = "done" /\ fail = "digest"
  /\ Len(P.paths) = 3 /\ idx = 2
  /\ Len(stdout) = 1
  /\ exit = <<1>>

FixedWithLength ==
  /\ Cli
  /\ UsageReason(args) = ""
  /\ Get(args.algorithm) \notin {"shake_128", "shake_256"}
  /\ args.length # None

\* C6: a Params record has a digest length if and only if its algorithm is
\* variable-length; a length given with a fixed-length algorithm is dropped
\* with a warning on the diagnostic stream and the run goes on, printing the
\* digests it prints without a length; a variable-length algorithm without
\* a length yields no Params record.
C6_DigestLengthIffVariable ==
  /\ params # None =>
        ((P.digest_length # None) <=> (P.algorithm \in {"shake_128", "shake_256"}))
  /\ VariableLengthNoLength => params = None
  /\ (FixedWithLength /\ pc # "start") =>
        /\ params # None
        /\ P.digest_length = None
        /\ Len(stderr) > 0 /\ stderr[1].kind = "WARNING"
        /\ \A i \in 1 .. Len(stdout) :
              stdout[i].digest # None =>
                 Get(stdout[i].digest) =
                    [alg |-> P.algorithm, data |-> truth[i].data, len |-> None]
        /\ (pc = "done" /\ fail = "none") =>
              /\ exit = <<0>>
              /\ Len(stdout) = IF Len(P.paths) = 0 THEN 1 ELSE Len(P.paths)

\* C6's case: a fixed-length algorithm with a length has printed a digest
C6_Witness ==
  /\ FixedWithLength
  /\ pc = "done"
  /\ exit = <<0>>
  /\ Len(stdout) >= 1
  /\ stdout[1].digest # None

\* C7: at most one file handle is open at any time, it is the current
\* path's, none is open while the next path is tested or opened, nor once
\* the digest engine's error has left the with block, nor when main ends.
C7_HandlesClosed ==
  /\ Cardinality(open) <= 1
  /\ open # {} => (FileMode /\ open = {idx})
  /\ pc \in {"start", "main", "loop", "open", "m_except", "done"} => open = {}

\* C7's case: the engine failed on an opened file and main has ended
C7_Witness ==
  /\ FileMode /\ pc = "done" /\ fail = "digest"
  /\ truth[idx].kind = "file"
  /\ open = {}

InLoop == pc \in {"d_read", "d_check"}

Source == Get(f)

C8_Fed ==
  /\ pc = "d_read" => Get(h).data = SubSeq(Source.data, 1, Source.pos)
  /\ pc = "d_check" =>
        /\ Get(h).data = SubSeq(Source.data, 1, Source.pos - n)
        /\ n <= buf.size
  /\ pc \in {"d_final", "d_return"} =>
        /\ n = 0
        /\ Get(h).data = SubSeq(Source.data, 1, Source.pos)

C8_Step ==
  /\ (pc = "d_check" /\ n > 0) =>
        /\ pc' = "d_read"
        /\ Get(h').data = Get(h).data \o SubSeq(Source.data, Source.pos - n + 1, Source.pos)
  /\ (pc = "d_check" /\ n = 0) => (pc' = "d_final" /\ h' = h)
  /\ (pc = "d_final") => h' = h

\* C8: the read loop feeds the accumulator exactly the bytes each read
\* returned, in read order; it leaves the loop only on a read of zero
\* bytes, never on a short read, and feeds nothing after that read; and
\* the loop terminates.
C8_ReadLoop ==
  /\ []C8_Fed
  /\ [][C8_Step]_vars
  /\ (InLoop ~> ~InLoop)

\* C8's case: a short read that is not the end of the source
C8_Witness ==
  /\ pc = "d_check"
  /\ 0 < n /\ n < buf.size
  /\ Source.pos < Len(Source.data)

\* C9: once parse_params has returned, no failure leaves main as an
\* exception: every failure while processing an input, a failure to open an
\* accepted path included, is an Error line on the diagnostic stream and
\* main returns 1.
C9_NoEscape ==
  (Cli /\ params # None /\ pc = "done") =>
      /\ outcome = "returned"
      /\ fail # "none" =>
            /\ exit = <<1>>
            /\ Len(stderr) > 0 /\ LastErr.kind = "Error"

\* C10: called directly with a bufsize that is not positive, digest()
\* raises DigestError and never returns a digest string.
C10_NonPositiveBufsizeRaises ==
  (args.mode = "lib" /\ call.bufsize <= 0) =>
      /\ pc # "d_return"
      /\ ret = None
      /\ pc = "done" => outcome = "raised"

====
